---- MODULE Spec2Model ----
(***************************************************************************)
(* Request routing and authorization gating of the object node             *)
(* (objectnode/router.go).  registerApiRouters builds a gorilla/mux route  *)
(* tree: a "/" prefix router holding one sub-router per configured domain  *)
(* (with and without port) and a final path-style sub-router, then the     *)
(* root list-buckets route and the NotFoundHandler.  The model evaluates   *)
(* a request against that tree the way mux's Router.Match / Route.Match    *)
(* do (routes in registration order, MatchErr threaded through), and then  *)
(* runs the selected handler, through policyCheck where the route wraps    *)
(* its handler with it.                                                    *)
(*                                                                         *)
(* Paths are sequences of characters, hosts are sequences of labels plus   *)
(* an optional port, query and header values are sequences of characters.  *)
(* The router is assumed to be created with SkipClean (paths reach the     *)
(* matcher as sent), and host templates are matched against the whole      *)
(* host, port included (which is why router.go registers both forms).      *)
(***************************************************************************)
EXTENDS Integers, Sequences, FiniteSets, TLC

\* ------------------------------------------------------------------------
\* Bounds
\* ------------------------------------------------------------------------
MaxPathLen == 4
NumDomains == 2

\* ------------------------------------------------------------------------
\* Small helpers on character sequences
\* ------------------------------------------------------------------------
Digits == {"0", "1", "2", "3", "4", "5", "6", "7", "8", "9"}

IsDigits(v) == Len(v) > 0 /\ \A i \in 1..Len(v) : v[i] \in Digits

Contains(v, sub) ==
    \E i \in 1..(Len(v) - Len(sub) + 1) : SubSeq(v, i, i + Len(sub) - 1) = sub

\* mux braceIndices: a template whose braces do not balance is an error
RECURSIVE BraceLevelOK(_, _, _)
BraceLevelOK(tpl, i, level) ==
    IF i > Len(tpl) THEN level = 0
    ELSE IF tpl[i] = "{" THEN BraceLevelOK(tpl, i + 1, level + 1)
    ELSE IF tpl[i] = "}" THEN level > 0 /\ BraceLevelOK(tpl, i + 1, level - 1)
    ELSE BraceLevelOK(tpl, i + 1, level)

\* ------------------------------------------------------------------------
\* Configuration: o.domains
\* ------------------------------------------------------------------------
DomainPool == << <<"s3", "com">>, <<"eu", "s3", "com">>, <<"oss", "net">> >>

domains ==
    [i \in 1..NumDomains |->
        IF i <= Len(DomainPool) THEN DomainPool[i] ELSE <<"alt", ToString(i)>>]

\* ------------------------------------------------------------------------
\* Route table
\* ------------------------------------------------------------------------
HeaderNameCopySource == "x-amz-copy-source"

\* Path templates as written in the source, one token per syntactic piece
ObjectTpl == <<"/", "{", "object", ":", ".+", "}">>
ObjjectTpl == <<"/", "{", "objject", ":", ".+", "}">>
UnclosedObjectTpl == <<"/", "{", "object", ":", ".+">>
RootTpl == <<"/">>
NoPath == <<>>

Route(id, methods, path, headers, queries, handler, gated, actions) ==
    [id |-> id, methods |-> methods, path |-> path, headers |-> headers,
     queries |-> queries, handler |-> handler, gated |-> gated,
     actions |-> actions]

registerBucketHttpHeadRouters == <<
    Route("head-object", {"HEAD"}, ObjectTpl, {}, <<>>,
          "headObjectHandler", TRUE, {"GetObjectAction"}),
    Route("head-bucket", {"HEAD"}, NoPath, {}, <<>>,
          "headBucketHandler", TRUE, {"ListBucketAction"}) >>

\* Variant: plain get-object registered before the predicated routes
registerBucketHttpGetRouters_PlainFirst == <<
    Route("get-object-presigned-v2", {"GET"}, ObjectTpl, {},
          <<"AWSAccessKeyId", "{accessKey:.+}", "Expires", "{expires:[0-9]+}",
            "Signature", "{signature:.+}">>,
          "getObjectHandler", TRUE, {"ListBucketAction"}),
    Route("get-object-presigned-v4", {"GET"}, ObjectTpl, {},
          <<"X-Amz-Credential", "{creadential:.+}",
            "X-Amz-Algorithm", "{algorithm:.+}",
            "X-Amz-Signature", "{signature:.+}",
            "X-Amz-Date", "{date:.+}",
            "X-Amz-SignedHeaders", "{signedHeaders:.+}",
            "X-Amz-Expires", "{expires:[0-9]+}">>,
          "getObjectHandler", TRUE, {"ListBucketAction"}),
    Route("get-object", {"GET"}, ObjectTpl, {}, <<>>,
          "getObjectHandler", TRUE, {"GetObjectAction"}),
    Route("get-object-tagging", {"GET"}, ObjectTpl, {}, <<"tagging", "">>,
          "getObjectTagging", TRUE, {"GetBucketPolicyAction"}),
    Route("get-object-xattr", {"GET"}, ObjectTpl, {},
          <<"xattr", "", "key", "{key:.+}">>,
          "getObjectXAttr", FALSE, {}),
    Route("list-object-xattrs", {"GET"}, ObjectTpl, {}, <<"xattr", "">>,
          "listObjectXAttrs", FALSE, {}),
    Route("get-object-acl", {"GET"}, ObjjectTpl, {}, <<"acl", "">>,
          "getObjectACLHandler", TRUE, {"GetObjectAclAction"}),
    Route("list-objects-v2", {"GET"}, NoPath, {}, <<"list-type", "2">>,
          "getBucketV2Handler", TRUE, {"ListBucketAction"}),
    Route("list-multipart-uploads", {"GET"}, NoPath, {}, <<"uploads", "">>,
          "listMultipartUploadsHandler", TRUE,
          {"ListMultipartUploadPartsAction"}),
    Route("list-parts", {"GET"}, NoPath, {}, <<"uploadId", "{uploadId:.*}">>,
          "listPartsHandler", TRUE, {"ListMultipartUploadPartsAction"}),
    Route("get-bucket-location", {"GET"}, NoPath, {}, <<"location", "">>,
          "getBucketLocation", TRUE, {"GetBucketLocationAction"}),
    Route("get-bucket-policy", {"GET"}, NoPath, {}, <<"policy", "">>,
          "getBucketPolicyHandler", TRUE, {"GetBucketPolicyAction"}),
    Route("get-bucket-acl", {"GET"}, NoPath, {}, <<"acl", "">>,
          "getBucketACLHandler", TRUE, {"GetBucketAclAction"}),
    Route("list-objects-v1", {"GET"}, NoPath, {}, <<>>,
          "getBucketV1Handler", TRUE, {"ListBucketAction"}) >>

registerBucketHttpGetRouters == <<
    Route("get-object-presigned-v2", {"GET"}, ObjectTpl, {},
          <<"AWSAccessKeyId", "{accessKey:.+}", "Expires", "{expires:[0-9]+}",
            "Signature", "{signature:.+}">>,
          "getObjectHandler", TRUE, {"ListBucketAction"}),
    Route("get-object-presigned-v4", {"GET"}, ObjectTpl, {},
          <<"X-Amz-Credential", "{creadential:.+}",
            "X-Amz-Algorithm", "{algorithm:.+}",
            "X-Amz-Signature", "{signature:.+}",
            "X-Amz-Date", "{date:.+}",
            "X-Amz-SignedHeaders", "{signedHeaders:.+}",
            "X-Amz-Expires", "{expires:[0-9]+}">>,
          "getObjectHandler", TRUE, {"ListBucketAction"}),
    Route("get-object-tagging", {"GET"}, ObjectTpl, {}, <<"tagging", "">>,
          "getObjectTagging", TRUE, {"GetBucketPolicyAction"}),
    Route("get-object-xattr", {"GET"}, ObjectTpl, {},
          <<"xattr", "", "key", "{key:.+}">>,
          "getObjectXAttr", FALSE, {}),
    Route("list-object-xattrs", {"GET"}, ObjectTpl, {}, <<"xattr", "">>,
          "listObjectXAttrs", FALSE, {}),
    Route("get-object-acl", {"GET"}, ObjjectTpl, {}, <<"acl", "">>,
          "getObjectACLHandler", TRUE, {"GetObjectAclAction"}),
    Route("get-object", {"GET"}, ObjectTpl, {}, <<>>,
          "getObjectHandler", TRUE, {"GetObjectAction"}),
    Route("list-objects-v2", {"GET"}, NoPath, {}, <<"list-type", "2">>,
          "getBucketV2Handler", TRUE, {"ListBucketAction"}),
    Route("list-multipart-uploads", {"GET"}, NoPath, {}, <<"uploads", "">>,
          "listMultipartUploadsHandler", TRUE,
          {"ListMultipartUploadPartsAction"}),
    Route("list-parts", {"GET"}, NoPath, {}, <<"uploadId", "{uploadId:.*}">>,
          "listPartsHandler", TRUE, {"ListMultipartUploadPartsAction"}),
    Route("get-bucket-location", {"GET"}, NoPath, {}, <<"location", "">>,
          "getBucketLocation", TRUE, {"GetBucketLocationAction"}),
    Route("get-bucket-policy", {"GET"}, NoPath, {}, <<"policy", "">>,
          "getBucketPolicyHandler", TRUE, {"GetBucketPolicyAction"}),
    Route("get-bucket-acl", {"GET"}, NoPath, {}, <<"acl", "">>,
          "getBucketACLHandler", TRUE, {"GetBucketAclAction"}),
    Route("list-objects-v1", {"GET"}, NoPath, {}, <<>>,
          "getBucketV1Handler", TRUE, {"ListBucketAction"}) >>

registerBucketHttpPostRouters == <<
    Route("create-multipart-upload", {"POST"}, ObjectTpl, {},
          <<"uploads", "">>,
          "createMultipleUploadHandler", TRUE, {"PutObjectAction"}),
    Route("complete-multipart-upload", {"POST"}, ObjectTpl, {},
          <<"uploadId", "{uploadId:.*}">>,
          "completeMultipartUploadHandler", TRUE, {"PutObjectAction"}),
    Route("delete-objects", {"POST"}, NoPath, {}, <<"delete", "">>,
          "deleteObjectsHandler", TRUE, {"DeleteObjectAction"}) >>

\* Variant: put-object registered without Methods
registerBucketHttpPutRouters_PutObjectAnyMethod == <<
    Route("upload-part", {"PUT"}, ObjectTpl, {},
          <<"partNumber", "{partNumber:[0-9]+}", "uploadId", "{uploadId:.*}">>,
          "uploadPartHandler", TRUE, {"PutObjectAction"}),
    Route("copy-object", {"PUT"}, ObjectTpl, {HeaderNameCopySource}, <<>>,
          "copyObjectHandler", TRUE, {"PutObjectAction"}),
    Route("put-object-tagging", {"PUT"}, ObjectTpl, {}, <<"tagging", "">>,
          "putObjectTagging", TRUE, {"PutBucketPolicyAction"}),
    Route("put-object-xattr", {"PUT"}, ObjectTpl, {}, <<"xattr", "">>,
          "putObjectXAttr", FALSE, {}),
    Route("put-object-acl", {"PUT"}, ObjectTpl, {}, <<"acl", "">>,
          "putObjectACLHandler", TRUE, {"PutObjectAclAction"}),
    Route("put-object", {}, ObjectTpl, {}, <<>>,
          "putObjectHandler", TRUE, {"PutObjectAction"}),
    Route("put-bucket-acl", {"PUT"}, NoPath, {}, <<"acl", "">>,
          "putBucketACLHandler", TRUE, {"PutBucketAclAction"}),
    Route("put-bucket-policy", {"PUT"}, NoPath, {}, <<"policy", "">>,
          "putBucketPolicyHandler", TRUE, {"PutBucketPolicyAction"}) >>

registerBucketHttpPutRouters == <<
    Route("upload-part", {"PUT"}, ObjectTpl, {},
          <<"partNumber", "{partNumber:[0-9]+}", "uploadId", "{uploadId:.*}">>,
          "uploadPartHandler", TRUE, {"PutObjectAction"}),
    Route("copy-object", {"PUT"}, ObjectTpl, {HeaderNameCopySource}, <<>>,
          "copyObjectHandler", TRUE, {"PutObjectAction"}),
    Route("put-object-tagging", {"PUT"}, ObjectTpl, {}, <<"tagging", "">>,
          "putObjectTagging", TRUE, {"PutBucketPolicyAction"}),
    Route("put-object-xattr", {"PUT"}, ObjectTpl, {}, <<"xattr", "">>,
          "putObjectXAttr", FALSE, {}),
    Route("put-object-acl", {"PUT"}, ObjectTpl, {}, <<"acl", "">>,
          "putObjectACLHandler", TRUE, {"PutObjectAclAction"}),
    Route("put-object", {"PUT"}, ObjectTpl, {}, <<>>,
          "putObjectHandler", TRUE, {"PutObjectAction"}),
    Route("put-bucket-acl", {"PUT"}, NoPath, {}, <<"acl", "">>,
          "putBucketACLHandler", TRUE, {"PutBucketAclAction"}),
    Route("put-bucket-policy", {"PUT"}, NoPath, {}, <<"policy", "">>,
          "putBucketPolicyHandler", TRUE, {"PutBucketPolicyAction"}) >>

registerBucketHttpDeleteRouters == <<
    Route("abort-multipart-upload", {"DELETE"}, ObjectTpl, {},
          <<"uploadId", "{uploadId:.*}">>,
          "abortMultipartUploadHandler", TRUE, {"AbortMultipartUploadAction"}),
    Route("delete-object-tagging", {"DELETE"}, UnclosedObjectTpl, {},
          <<"tagging", "">>,
          "deleteObjectTagging", TRUE, {"PutBucketPolicyAction"}),
    Route("delete-object-xattr", {"DELETE"}, ObjectTpl, {},
          <<"xattr", "key", "{key:.+}}">>,
          "deleteObjectXAttr", FALSE, {}),
    Route("delete-object", {"DELETE"}, ObjectTpl, {}, <<>>,
          "deleteObjectHandler", TRUE, {"DeleteObjectAction"}),
    Route("delete-bucket-policy", {"DELETE"}, NoPath, {}, <<"policy", "">>,
          "deleteBucketPolicyHandler", TRUE, {"DeleteBucketPolicyAction"}) >>

\* The routes every bucket router receives, in registration order
BucketRoutes ==
    registerBucketHttpHeadRouters \o registerBucketHttpGetRouters \o
    registerBucketHttpPostRouters \o registerBucketHttpPutRouters \o
    registerBucketHttpDeleteRouters

\* Variant: list-buckets restricted to the root path
RootRoutes_RootPathOnly == <<
    Route("list-buckets", {"GET"}, RootTpl, {}, <<>>,
          "listBucketsHandler", TRUE, {"ListBucketAction"}) >>

\* The routes registered on the root router after the bucket routers
RootRoutes == <<
    Route("list-buckets", {"GET"}, NoPath, {}, <<>>,
          "listBucketsHandler", TRUE, {"ListBucketAction"}) >>

\* bucketRouters: per domain the host router and the host:port router, then
\* the path-style router
HostRouter(d, withPort) ==
    [style |-> "virtualHosted", domain |-> d, withPort |-> withPort]

PathRouter == [style |-> "pathStyle", domain |-> <<>>, withPort |-> FALSE]

RECURSIVE DomainRouters(_)
DomainRouters(i) ==
    IF i > NumDomains THEN <<>>
    ELSE <<HostRouter(domains[i], FALSE), HostRouter(domains[i], TRUE)>>
         \o DomainRouters(i + 1)

\* Variant: the path-style router registered before the host routers
bucketRouters_PathStyleFirst == <<PathRouter>> \o DomainRouters(1)

bucketRouters == DomainRouters(1) \o <<PathRouter>>

\* ------------------------------------------------------------------------
\* Requests
\* ------------------------------------------------------------------------
\* request == [method, host |-> [name, colon, port], path, query, copySource]
\*   query      : function from the query keys that are present to the value
\*                of their first occurrence
\*   copySource : the values of the x-amz-copy-source header (empty: absent)

\* ------------------------------------------------------------------------
\* mux matchers, as configured by router.go
\* ------------------------------------------------------------------------
\* The regular expression mux derives from a query value template
QueryPattern(tpl) ==
    CASE tpl = "" -> ".*"
      [] tpl = "2" -> "^2$"
      [] tpl \in {"{uploadId:.*}"} -> ".*"
      [] tpl \in {"{expires:[0-9]+}", "{partNumber:[0-9]+}"} -> "[0-9]+"
      [] OTHER -> ".+"

MatchesPattern(v, pattern) ==
    CASE pattern = ".*" -> TRUE
      [] pattern = ".+" -> Len(v) > 0
      [] pattern = "[0-9]+" -> IsDigits(v)
      [] pattern = "^2$" -> v = <<"2">>

\* Route.Queries: every key present and its value matching the template
QueriesOK(rt, query) ==
    \A i \in 1..(Len(rt.queries) \div 2) :
        LET key == rt.queries[2 * i - 1]
            tpl == rt.queries[2 * i]
        IN  key \in DOMAIN query /\ MatchesPattern(query[key], QueryPattern(tpl))

\* Variant: only the plain separator is recognised
CopySourceRegexp_SlashOnly(v) == Contains(v, <<"/">>)

\* HeadersRegexp(HeaderNameCopySource, ".*?(\\/|%2F).*?")
CopySourceRegexp(v) == Contains(v, <<"/">>) \/ Contains(v, <<"%", "2", "F">>)

HeadersOK(rt, req) ==
    \A h \in rt.headers : \E v \in req.copySource : CopySourceRegexp(v)

\* A route whose construction failed (r.err != nil) never matches:
\* unbalanced braces in the path template, or an odd number of arguments
\* to Queries
RouteErr(rt) ==
    \/ ~BraceLevelOK(rt.path, 1, 0)
    \/ Len(rt.queries) % 2 # 0

\* Host("{bucket:.+}." + d) and Host("{bucket:.+}." + d + ":{port:[0-9]+}")
HostMatches(host, d, withPort) ==
    /\ Len(host.name) > Len(d)
    /\ SubSeq(host.name, Len(host.name) - Len(d) + 1, Len(host.name)) = d
    /\ IF withPort THEN host.colon /\ IsDigits(host.port) ELSE ~host.colon

\* PathPrefix("/")
SlashPrefix(path) == Len(path) >= 1 /\ path[1] = "/"

\* PathPrefix("/{bucket}"): ^/[^/]+
BucketPrefix(path) == Len(path) >= 2 /\ path[1] = "/" /\ path[2] # "/"

\* Index of the last character of the {bucket} segment of a path-style path
RECURSIVE BucketEnd(_, _)
BucketEnd(path, i) ==
    IF i + 1 <= Len(path) /\ path[i + 1] # "/" THEN BucketEnd(path, i + 1)
    ELSE i

\* The router's own matchers (inherited by each of its routes)
RouterAdmits(router, req) ==
    /\ SlashPrefix(req.path)
    /\ IF router.style = "virtualHosted"
       THEN HostMatches(req.host, router.domain, router.withPort)
       ELSE BucketPrefix(req.path)

\* Path(tpl) under the router's path prefix.  Path("/") is the literal
\* path; Path("/{object:.+}") is
\*   host routers  ^/.+$          path-style router  ^/[^/]+/.+$
PathOK(router, rt, path) ==
    IF rt.path = NoPath THEN TRUE
    ELSE IF rt.path = RootTpl THEN path = <<"/">>
    ELSE IF router.style = "virtualHosted" THEN Len(path) >= 2
    ELSE /\ BucketPrefix(path)
         /\ BucketEnd(path, 2) + 2 <= Len(path)

MethodOK(rt, req) == rt.methods = {} \/ req.method \in rt.methods

\* mux variables of a match
BucketVar(router, req) ==
    IF router.style = "virtualHosted"
    THEN SubSeq(req.host.name, 1, Len(req.host.name) - Len(router.domain))
    ELSE SubSeq(req.path, 2, BucketEnd(req.path, 2))

ObjectVar(router, rt, req) ==
    IF rt.path = NoPath THEN <<>>
    ELSE IF router.style = "virtualHosted" THEN SubSeq(req.path, 2, Len(req.path))
    ELSE SubSeq(req.path, BucketEnd(req.path, 2) + 2, Len(req.path))

\* ------------------------------------------------------------------------
\* mux Router.Match / Route.Match over the tree registerApiRouters builds
\* ------------------------------------------------------------------------
NoErr == "nil"
ErrMethodMismatch == "ErrMethodMismatch"
ErrNotFound == "ErrNotFound"

ClearNotFound(matchErr) == IF matchErr = ErrNotFound THEN NoErr ELSE matchErr

\* The routes of one router tried in order.  A route whose only failing
\* matcher is the method records ErrMethodMismatch and is skipped; a route
\* that matches clears a recorded mismatch.
RECURSIVE MatchRoutes(_, _, _, _, _)
MatchRoutes(routes, router, req, i, matchErr) ==
    IF i > Len(routes) THEN [found |-> FALSE, index |-> 0, matchErr |-> matchErr]
    ELSE LET rt == routes[i] IN
         IF RouteErr(rt) THEN MatchRoutes(routes, router, req, i + 1, matchErr)
         ELSE IF ~(PathOK(router, rt, req.path) /\ HeadersOK(rt, req)
                   /\ QueriesOK(rt, req.query))
         THEN MatchRoutes(routes, router, req, i + 1, ClearNotFound(matchErr))
         ELSE IF ~MethodOK(rt, req)
         THEN MatchRoutes(routes, router, req, i + 1, ErrMethodMismatch)
         ELSE [found |-> TRUE, index |-> i,
               matchErr |-> IF matchErr = ErrMethodMismatch THEN NoErr
                            ELSE matchErr]

\* Router.Match of a sub-router (no NotFoundHandler, no
\* MethodNotAllowedHandler of its own): a failed match leaves
\* ErrMethodMismatch in place, otherwise reports ErrNotFound
SubrouterFail(matchErr) ==
    IF matchErr = ErrMethodMismatch THEN ErrMethodMismatch ELSE ErrNotFound

\* bRouter: the bucket routers in order
RECURSIVE MatchBucketRouters(_, _, _)
MatchBucketRouters(j, req, matchErr) ==
    IF j > Len(bucketRouters)
    THEN [found |-> FALSE, router |-> 0, index |-> 0, matchErr |-> matchErr]
    ELSE IF ~RouterAdmits(bucketRouters[j], req)
    THEN MatchBucketRouters(j + 1, req, ClearNotFound(matchErr))
    ELSE LET m == MatchRoutes(BucketRoutes, bucketRouters[j], req, 1, matchErr)
         IN  IF m.found
             THEN [found |-> TRUE, router |-> j, index |-> m.index,
                   matchErr |-> m.matchErr]
             ELSE MatchBucketRouters(j + 1, req,
                                     ClearNotFound(SubrouterFail(m.matchErr)))

RootRouter == [style |-> "root", domain |-> <<>>, withPort |-> FALSE]

NoRoute == Route("-", {}, NoPath, {}, <<>>, "-", FALSE, {})

Selection(kind, style, router, rt, bucket, object) ==
    [kind |-> kind, style |-> style, router |-> router, route |-> rt,
     bucket |-> bucket, object |-> object]

NoSelection == Selection("none", "-", 0, NoRoute, <<>>, <<>>)

\* The root router: the "/" prefix route with bRouter, then the root routes,
\* then MethodNotAllowed (mux default) or the NotFoundHandler
Match(req) ==
    LET b == IF SlashPrefix(req.path)
             THEN MatchBucketRouters(1, req, NoErr)
             ELSE [found |-> FALSE, router |-> 0, index |-> 0, matchErr |-> NoErr]
    IN  IF b.found
        THEN LET router == bucketRouters[b.router]
                 rt == BucketRoutes[b.index]
             IN  Selection("route", router.style, b.router, rt,
                           BucketVar(router, req), ObjectVar(router, rt, req))
        ELSE LET e == IF SlashPrefix(req.path)
                      THEN ClearNotFound(SubrouterFail(b.matchErr))
                      ELSE b.matchErr
                 m == MatchRoutes(RootRoutes, RootRouter, req, 1, e)
             IN  IF m.found
                 THEN Selection("route", "root", 0, RootRoutes[m.index], <<>>, <<>>)
                 ELSE IF m.matchErr = ErrMethodMismatch
                 THEN Selection("methodNotAllowed", "-", 0, NoRoute, <<>>, <<>>)
                 ELSE Selection("notFound", "-", 0, NoRoute, <<>>, <<>>)

\* ------------------------------------------------------------------------
\* Inputs
\* ------------------------------------------------------------------------
Methods == {"GET", "HEAD", "POST", "PUT", "DELETE", "PATCH", "OPTIONS"}

PathChars == {"/", "a"}

\* Every path of at most MaxPathLen characters that starts with a slash
Paths ==
    {p \in UNION {[1..n -> PathChars] : n \in 1..MaxPathLen} : p[1] = "/"}

Host(name, colon, port) == [name |-> name, colon |-> colon, port |-> port]

\* One bucket label in front of every configured domain, a bare configured
\* domain, and a host under no configured domain
HostNames ==
    {<<"b">> \o domains[i] : i \in 1..NumDomains}
        \cup {domains[1], <<"b", "other", "org">>}

\* No port, a numeric port, a non-numeric port
Hosts ==
    {Host(n, FALSE, <<>>) : n \in HostNames}
        \cup {Host(n, TRUE, <<"8", "0">>) : n \in HostNames}
        \cup {Host(n, TRUE, <<"8", "x">>) : n \in HostNames}

\* Values of the copy-source header: absent, without separator, with "/",
\* with "%2F"
CopySources ==
    { {}, {<<"b", "o">>}, {<<"b", "/", "o">>}, {<<"b", "%", "2", "F", "o">>} }

\* Every key some route asks for, and one key no route asks for
QueryKeys ==
    {"AWSAccessKeyId", "Expires", "Signature", "X-Amz-Credential",
     "X-Amz-Algorithm", "X-Amz-Signature", "X-Amz-Date",
     "X-Amz-SignedHeaders", "X-Amz-Expires", "tagging", "xattr", "key",
     "acl", "list-type", "uploads", "uploadId", "location", "policy",
     "delete", "partNumber", "versionId"}

\* Empty, numeric and non-numeric values
QueryValues == {<<>>, <<"2">>, <<"x">>}

EmptyQuery == [k \in {} |-> <<>>]

\* The queries that satisfy exactly the predicates of one route with more
\* than one predicate
QueryTemplates ==
    { EmptyQuery,
      [k \in {"AWSAccessKeyId", "Expires", "Signature"} |->
          IF k = "Expires" THEN <<"2">> ELSE <<"x">>],
      [k \in {"X-Amz-Credential", "X-Amz-Algorithm", "X-Amz-Signature",
              "X-Amz-Date", "X-Amz-SignedHeaders", "X-Amz-Expires"} |->
          IF k = "X-Amz-Expires" THEN <<"2">> ELSE <<"x">>],
      [k \in {"xattr", "key"} |-> IF k = "key" THEN <<"x">> ELSE <<>>],
      [k \in {"partNumber", "uploadId"} |->
          IF k = "partNumber" THEN <<"2">> ELSE <<"x">>] }

SetKey(q, key, v) ==
    [k \in DOMAIN q \cup {key} |-> IF k = key THEN v ELSE q[k]]

DropKey(q, key) == [k \in DOMAIN q \ {key} |-> q[k]]

\* Each template, and each template with one key set, changed or removed
Queries ==
    QueryTemplates
        \cup {SetKey(q, k, v) : q \in QueryTemplates, k \in QueryKeys,
                                v \in QueryValues}
        \cup UNION {{DropKey(q, k) : k \in DOMAIN q} : q \in QueryTemplates}

Request(method, host, path, query, copySource) ==
    [method |-> method, host |-> host, path |-> path, query |-> query,
     copySource |-> copySource]

\* Addressings and parameters every other dimension is swept against: one
\* host/path pair per shape (root, bucket and object under either style), and
\* the parameter sets of the plainest requests
CoreAddressings ==
    LET vhost == Host(<<"b">> \o domains[1], FALSE, <<>>)
        other == Host(<<"b", "other", "org">>, FALSE, <<>>)
    IN  { <<vhost, <<"/">>>>, <<vhost, <<"/", "a">>>>,
          <<other, <<"/">>>>, <<other, <<"/", "a">>>>,
          <<other, <<"/", "a", "/", "a">>>> }

CoreParameters ==
    {<<q, c>> : q \in {EmptyQuery} \cup
                      {SetKey(EmptyQuery, k, <<>>) :
                          k \in {"tagging", "delete", "policy"}},
                c \in {{}, {<<"b", "/", "o">>}}}

\* Every method with every host and path under the core parameters, and
\* every method with every query and copy-source value under the core
\* addressings
Requests ==
    {Request(m, h, p, qc[1], qc[2]) :
        m \in Methods, h \in Hosts, p \in Paths, qc \in CoreParameters}
    \cup
    {Request(m, hp[1], hp[2], q, c) :
        m \in Methods, hp \in CoreAddressings, q \in Queries,
        c \in CopySources}

NoRequest == Request("-", Host(<<>>, FALSE, <<>>), <<>>, EmptyQuery, {})

\* ------------------------------------------------------------------------
\* State
\* ------------------------------------------------------------------------
VARIABLES
    pc,             \* position of the request in flight
    request,        \* the request in flight
    selection,      \* what the router selected for it
    authenticated,  \* policyCheck: credential extraction succeeded
    authorized,     \* policyCheck: the evaluator granted the required actions
    invoked,        \* the operation handler that ran ("-": none)
    response        \* how the request ended ("-": not yet)

vars == <<pc, request, selection, authenticated, authorized, invoked, response>>

Init ==
    /\ pc = "idle"
    /\ request = NoRequest
    /\ selection = NoSelection
    /\ authenticated = FALSE
    /\ authorized = FALSE
    /\ invoked = "-"
    /\ response = "-"

\* mux ServeHTTP: match the request against the route tree and hand it to
\* what was registered for the selected route
Serve(req) ==
    /\ request' = req
    /\ selection' = Match(req)
    /\ pc' = CASE selection'.kind = "route" /\ selection'.route.gated
                     -> "policyCheck"
               [] selection'.kind = "route" /\ ~selection'.route.gated
                     -> "handler"
               [] OTHER -> "done"
    /\ response' = CASE selection'.kind = "methodNotAllowed"
                           -> "MethodNotAllowed"
                     [] selection'.kind = "notFound" -> "UnsupportedOperation"
                     [] OTHER -> "-"
    /\ UNCHANGED <<authenticated, authorized, invoked>>

\* A request of Requests arrives
ServeHTTP ==
    /\ pc = "idle"
    /\ \/ \E m \in Methods, h \in Hosts, p \in Paths, qc \in CoreParameters :
            Serve(Request(m, h, p, qc[1], qc[2]))
       \/ \E m \in Methods, hp \in CoreAddressings, q \in Queries,
             c \in CopySources :
            Serve(Request(m, hp[1], hp[2], q, c))

\* policyCheck, first step: credential extraction
ExtractCredentials ==
    /\ pc = "policyCheck"
    /\ \E ok \in BOOLEAN :
        IF ok
        THEN /\ authenticated' = TRUE
             /\ pc' = "evaluate"
             /\ UNCHANGED response
        ELSE /\ response' = "InvalidCredentials"
             /\ pc' = "done"
             /\ UNCHANGED authenticated
    /\ UNCHANGED <<request, selection, authorized, invoked>>

\* policyCheck, second step: the evaluator grants some of the required
\* actions or fails; anything but a grant of all of them is a denial
EvaluatePolicy ==
    /\ pc = "evaluate"
    /\ \E granted \in SUBSET selection.route.actions, failed \in BOOLEAN :
        IF ~failed /\ granted = selection.route.actions
        THEN /\ authorized' = TRUE
             /\ pc' = "handler"
             /\ UNCHANGED response
        ELSE /\ response' = "AccessDenied"
             /\ pc' = "done"
             /\ UNCHANGED authorized
    /\ UNCHANGED <<request, selection, authenticated, invoked>>

\* The operation handler of the selected route runs
InvokeHandler ==
    /\ pc = "handler"
    /\ invoked' = selection.route.handler
    /\ response' = "Handled"
    /\ pc' = "done"
    /\ UNCHANGED <<request, selection, authenticated, authorized>>

\* The request is over; the next one starts from scratch
Finish ==
    /\ pc = "done"
    /\ pc' = "idle"
    /\ request' = NoRequest
    /\ selection' = NoSelection
    /\ authenticated' = FALSE
    /\ authorized' = FALSE
    /\ invoked' = "-"
    /\ response' = "-"

Next ==
    \/ ServeHTTP
    \/ ExtractCredentials
    \/ EvaluatePolicy
    \/ InvokeHandler
    \/ Finish

Spec == Init /\ [][Next]_vars

\* ------------------------------------------------------------------------
\* Vocabulary of the properties: what a request is, independently of the
\* route tree
\* ------------------------------------------------------------------------
Routed == pc # "idle"

Has(q, k) == k \in DOMAIN q
NonEmpty(q, k) == k \in DOMAIN q /\ q[k] # <<>>
Numeric(q, k) == k \in DOMAIN q /\ q[k] # <<>> /\ \A i \in DOMAIN q[k] : q[k][i] \in Digits

\* {prefix}.{domain} or {prefix}.{domain}:{numeric port}
UnderDomain(host, d) ==
    /\ Len(host.name) > Len(d)
    /\ \A k \in 1..Len(d) : host.name[Len(host.name) - Len(d) + k] = d[k]
    /\ host.colon => (host.port # <<>> /\ \A i \in DOMAIN host.port : host.port[i] \in Digits)

UnderSomeDomain(host) == \E i \in 1..NumDomains : UnderDomain(host, domains[i])

FirstDomain(host) ==
    domains[CHOOSE i \in 1..NumDomains :
                /\ UnderDomain(host, domains[i])
                /\ \A j \in 1..(i - 1) : ~UnderDomain(host, domains[j])]

\* Position of the slash that ends the first path segment (0: none)
SegmentSlash(path) ==
    IF \E j \in 3..Len(path) : path[j] = "/"
    THEN CHOOSE j \in 3..Len(path) :
            path[j] = "/" /\ \A k \in 3..(j - 1) : path[k] # "/"
    ELSE 0

HasFirstSegment(path) == Len(path) >= 2 /\ path[1] = "/" /\ path[2] # "/"

\* The object key the request addresses: under a configured domain the path
\* after the leading slash, otherwise the path after the first segment
ObjectKey(req) ==
    IF UnderSomeDomain(req.host)
    THEN SubSeq(req.path, 2, Len(req.path))
    ELSE IF HasFirstSegment(req.path) /\ SegmentSlash(req.path) > 0
    THEN SubSeq(req.path, SegmentSlash(req.path) + 1, Len(req.path))
    ELSE <<>>

ObjectLevel(req) == ObjectKey(req) # <<>>

HasSeparator(v) ==
    \E i \in DOMAIN v :
        \/ v[i] = "/"
        \/ i + 2 <= Len(v) /\ v[i] = "%" /\ v[i + 1] = "2" /\ v[i + 2] = "F"

CopySourceWithSeparator(req) == \E v \in req.copySource : HasSeparator(v)

PresignedV2(q) ==
    NonEmpty(q, "AWSAccessKeyId") /\ Numeric(q, "Expires") /\ NonEmpty(q, "Signature")

PresignedV4(q) ==
    /\ NonEmpty(q, "X-Amz-Credential") /\ NonEmpty(q, "X-Amz-Algorithm")
    /\ NonEmpty(q, "X-Amz-Signature") /\ NonEmpty(q, "X-Amz-Date")
    /\ NonEmpty(q, "X-Amz-SignedHeaders") /\ Numeric(q, "X-Amz-Expires")

UploadPartQuery(q) == Numeric(q, "partNumber") /\ Has(q, "uploadId")

RegisteredMethods == {"HEAD", "GET", "POST", "PUT", "DELETE"}

AllRoutes ==
    {BucketRoutes[n] : n \in 1..Len(BucketRoutes)}
        \cup {RootRoutes[n] : n \in 1..Len(RootRoutes)}

\* ------------------------------------------------------------------------
\* Properties
\* ------------------------------------------------------------------------

\* C1: every selected route has a non-empty set of required actions, and a
\* handler runs only after credential extraction succeeded and the evaluator
\* granted the required actions; a request that ended in an authentication
\* error or a denial ran no handler.
C1_HandlerOnlyBehindGate ==
    /\ selection.kind = "route" => selection.route.actions # {}
    /\ invoked # "-" => authenticated /\ authorized
    /\ response \in {"InvalidCredentials", "AccessDenied"} => invoked = "-"

\* C2 (as claimed): a PUT to an object-level path with a copy-source header
\* containing "/" or "%2F" selects copy-object whatever the query; without
\* the header and without query it selects put-object.
C2_CopyObjectForEveryQuery ==
    (Routed /\ request.method = "PUT" /\ ObjectLevel(request)) =>
        /\ CopySourceWithSeparator(request) => selection.route.id = "copy-object"
        /\ (request.query = EmptyQuery /\ request.copySource = {})
               => selection.route.id = "put-object"

\* C2 (amended): with such a header the PUT selects copy-object unless the
\* query has a numeric partNumber and an uploadId, in which case it selects
\* upload-part; without the header and without query it selects put-object.
C2_CopyObjectUnlessUploadPart ==
    (Routed /\ request.method = "PUT" /\ ObjectLevel(request)) =>
        /\ CopySourceWithSeparator(request) =>
               selection.route.id =
                   IF UploadPartQuery(request.query) THEN "upload-part"
                   ELSE "copy-object"
        /\ (request.query = EmptyQuery /\ request.copySource = {})
               => selection.route.id = "put-object"

C2_Witness ==
    /\ request.method = "PUT" /\ ObjectLevel(request)
    /\ request.copySource = {<<"b", "%", "2", "F", "o">>}
    /\ Has(request.query, "partNumber") /\ ~Numeric(request.query, "partNumber")
    /\ Has(request.query, "uploadId")
    /\ invoked = "copyObjectHandler"

\* C3: every registered route is selectable: while the router waits for a
\* request, for each route there is a request that ServeHTTP routes to it.
C3_EveryRouteSelectable ==
    pc = "idle" =>
        {rt.id : rt \in AllRoutes}
            \subseteq {Match(req).route.id : req \in Requests}

\* C4: a request to an object-level path with a method no route is
\* registered for ends in MethodNotAllowed: not in "operation not
\* supported", and no handler runs.
C4_UnknownMethodNotAllowed ==
    (Routed /\ ObjectLevel(request) /\ request.method \notin RegisteredMethods) =>
        /\ selection.kind = "methodNotAllowed"
        /\ response = "MethodNotAllowed"
        /\ invoked = "-"

C4_Witness ==
    /\ request.method = "PATCH" /\ ObjectLevel(request)
    /\ Has(request.query, "tagging")
    /\ response = "MethodNotAllowed"

\* C5: a GET to an object-level path selects plain get-object exactly when
\* the query satisfies none of the predicated object-level GET routes
\* (pre-signed v2, pre-signed v4, tagging, xattr with key, xattr, acl), so
\* extraneous keys alone still select it; with tagging present and neither
\* pre-signed set satisfied it selects get-object-tagging.
C5_PlainGetObjectIffNoPredicate ==
    (Routed /\ request.method = "GET" /\ ObjectLevel(request)) =>
        LET q == request.query IN
        /\ selection.route.id = "get-object" <=>
               ~(\/ PresignedV2(q) \/ PresignedV4(q) \/ Has(q, "tagging")
                 \/ (Has(q, "xattr") /\ NonEmpty(q, "key"))
                 \/ Has(q, "xattr") \/ Has(q, "acl"))
        /\ (Has(q, "tagging") /\ ~PresignedV2(q) /\ ~PresignedV4(q))
               => selection.route.id = "get-object-tagging"

C5_Witness ==
    /\ request.method = "GET" /\ ObjectLevel(request)
    /\ NonEmpty(request.query, "AWSAccessKeyId")
    /\ NonEmpty(request.query, "Signature")
    /\ Has(request.query, "Expires") /\ ~Numeric(request.query, "Expires")
    /\ selection.route.id = "get-object"
    /\ invoked = "getObjectHandler"

\* C6: a request routed to a bucket route is handled path-style (bucket =
\* first path segment, object key = the rest) exactly when its host is under
\* no configured domain, with or without numeric port; a request whose host
\* is under a configured domain is never handled path-style, whether or not
\* a route matched, and its bucket is the prefix before the first such
\* domain in configured order.
C6_PathStyleIffNoDomain ==
    Routed =>
        /\ UnderSomeDomain(request.host) => selection.style # "pathStyle"
        /\ (selection.kind = "route" /\ selection.style # "root") =>
            /\ selection.style = "pathStyle" <=> ~UnderSomeDomain(request.host)
            /\ selection.style = "pathStyle" =>
                /\ HasFirstSegment(request.path)
                /\ selection.bucket =
                       SubSeq(request.path, 2,
                              IF SegmentSlash(request.path) > 0
                              THEN SegmentSlash(request.path) - 1
                              ELSE Len(request.path))
                /\ selection.route.path # NoPath =>
                       selection.object = ObjectKey(request)
            /\ selection.style = "virtualHosted" =>
                   selection.bucket \o FirstDomain(request.host)
                       = request.host.name

C6_Witness ==
    /\ request.host.name = <<"b">> \o domains[NumDomains]
    /\ request.host.colon
    /\ selection.kind = "route" /\ selection.style = "virtualHosted"
    /\ selection.bucket # <<"b">>
    /\ invoked # "-"

\* C7: a DELETE to an object-level path whose query has tagging, or xattr
\* and key, never selects plain delete-object; with tagging (and no
\* uploadId) it selects delete-object-tagging.
C7_PredicatedDeleteNeverPlain ==
    (Routed /\ request.method = "DELETE" /\ ObjectLevel(request)) =>
        LET q == request.query IN
        /\ Has(q, "tagging") => selection.route.id # "delete-object"
        /\ (Has(q, "xattr") /\ Has(q, "key")) => selection.route.id # "delete-object"
        /\ (Has(q, "tagging") /\ ~Has(q, "uploadId"))
               => selection.route.id = "delete-object-tagging"

\* C8: a bucket-level route is selected only for requests without object
\* key.
C8_BucketRouteOnlyWithoutKey ==
    (Routed /\ selection.kind = "route" /\ selection.style # "root"
        /\ selection.route.path = NoPath) => ~ObjectLevel(request)

\* C9: all routes that dispatch to the handler of the selected route require
\* the same actions.
C9_SameHandlerSameActions ==
    selection.kind = "route" =>
        \A rt \in AllRoutes :
            rt.handler = selection.route.handler
                => rt.actions = selection.route.actions

\* C10: every request ends, before the gate, in a selected route or in
\* MethodNotAllowed: a GET always selects a route (list-buckets when no
\* bucket route matched), a request that selects none is not a GET and gets
\* MethodNotAllowed, and "operation not supported" is never produced.
C10_RouteOrMethodNotAllowed ==
    Routed =>
        /\ selection.kind \in {"route", "methodNotAllowed"}
        /\ request.method = "GET" => selection.kind = "route"
        /\ (request.method = "GET" /\ ~UnderSomeDomain(request.host)
               /\ ~HasFirstSegment(request.path))
               => selection.route.id = "list-buckets"
        /\ selection.kind = "methodNotAllowed" => response = "MethodNotAllowed"
        /\ response # "UnsupportedOperation"

C10_Witness ==
    /\ request.method = "GET" /\ request.path = <<"/", "/">>
    /\ Has(request.query, "tagging")
    /\ invoked = "listBucketsHandler"

====
